---- MODULE Spec2Model ----
(***************************************************************************)
(* Model of the `template` crate: the TemplateStore implementations of     *)
(* store.rs (FileStore, MemoryStore, NullStore, PartialStore and the       *)
(* Option / Box / &mut wrappers), the Templates cache of templates.rs and  *)
(* the Resolver of lib.rs.                                                 *)
(***************************************************************************)
EXTENDS Integers, Sequences, FiniteSets, TLC

VARIABLES
    store,      \* the TemplateStore owned by the caller / by Templates
    file,       \* the backing file of a FileStore: existence, mtime, contents
    templates,  \* Templates::templates, the cached TemplateMap
    phase,      \* "fresh" | "used" | "ready" | "failed"
    lastOp      \* the last operation performed and what it returned

vars == <<store, file, templates, phase, lastOp>>

(***************************************************************************)
(* Bounds and input sets                                                   *)
(***************************************************************************)
MaxTime == 2
Times == 0..MaxTime

\* A text is a sequence of lines <<namespace, name, template>>; a line whose
\* namespace is empty stands for a syntax error of the chosen format.
TextEmpty   == << >>
TextDefault == << <<"a", "x", "1">>, <<"a", "y", "2">> >>
TextPartial == << <<"a", "x", "9">> >>
TextGreet   == << <<"greet", "hello", "hi ${name}">> >>
TextBad     == << <<"", "", "">> >>
Texts == {TextEmpty, TextDefault, TextPartial, TextGreet, TextBad}

\* The (namespace, name) pairs asked of get / resolve.
Keys == {<<"a", "x">>, <<"a", "y">>, <<"greet", "hello">>,
         <<"missing_ns", "missing_name">>}
Namespaces == {k[1] : k \in Keys}

NONE == "None"

(***************************************************************************)
(* TemplateMap, Mapping, Error, the load function                          *)
(***************************************************************************)
EmptyMap == [n \in {} |-> n]

\* Result<TemplateMap<String>, Error>
Ok(m)  == [ok |-> TRUE,  err |-> "Ok", map |-> m]
Err(e) == [ok |-> FALSE, err |-> e,    map |-> EmptyMap]

\* Result::unwrap_or_default on a Result<TemplateMap, Error>
unwrap_or_default(r) == IF r.ok THEN r.map ELSE EmptyMap

Last(S) == CHOOSE i \in S : \A j \in S : j <= i

\* The nested map a well-formed text deserializes to (a later duplicate of a
\* key replaces an earlier one).
Deserialize(text) ==
    LET nss == {text[i][1] : i \in DOMAIN text}
    IN  [ns \in nss |->
            LET idx   == {i \in DOMAIN text : text[i][1] = ns}
                names == {text[i][2] : i \in idx}
            IN  [k \in names |-> text[Last({i \in idx : text[i][2] = k})][3]]]

\* LoadFunction: fn(&str) -> Result<TemplateMap<String>, Error>
LoadFunction(text) ==
    IF \E i \in DOMAIN text : text[i][1] = ""
    THEN Err("Deserialize")
    ELSE Ok(Deserialize(text))

\* Mapping::get
Mapping_get(m, name) == IF name \in DOMAIN m THEN m[name] ELSE NONE

\* Variant: only keys right already has are replaced; new keys of left are dropped.
HashMap_extend_existing(right, left) ==
    [ns \in DOMAIN right |->
        IF ns \in DOMAIN left THEN left[ns] ELSE right[ns]]

\* HashMap::extend(right, left): every key of left replaces that key of right.
HashMap_extend(right, left) ==
    [ns \in (DOMAIN right) \cup (DOMAIN left) |->
        IF ns \in DOMAIN left THEN left[ns] ELSE right[ns]]

(***************************************************************************)
(* Store values                                                            *)
(***************************************************************************)
\* Option<SystemTime> / Option<T> as a sequence of length 0 or 1.
None == << >>
Some(x) == <<x>>

FileStore_new == [k |-> "File", last |-> None]
MemoryStore_new(data) == [k |-> "Memory", data |-> data, changed |-> TRUE]
NullStore_new == [k |-> "Null"]
PartialStore_new(default, partial) ==
    [k |-> "Partial", default |-> default, partial |-> partial]
BoxStore(inner) == [k |-> "Box", inner |-> inner]
RefMutStore(inner) == [k |-> "RefMut", inner |-> inner]
\* Option<T>: Some(inner) or None (inner then holds a placeholder never used).
OptionSome(inner) == [k |-> "Option", some |-> TRUE, inner |-> inner]
OptionNone == [k |-> "Option", some |-> FALSE, inner |-> NullStore_new]

\* Results of the two trait methods: the value returned, the store afterwards
\* and the calls made on the stores it owns, in order.
ChangedResult(ret, s, sub) == [ret |-> ret, store |-> s, sub |-> sub]
ParseResult(res, s, sub) == [res |-> res, store |-> s, sub |-> sub]

RECURSIVE changed(_, _, _)
RECURSIVE parse_map(_, _)

(***************************************************************************)
(* FileStore                                                               *)
(***************************************************************************)
FileStore_parse_map(s, f) ==
    ParseResult(IF f.exists THEN LoadFunction(f.data) ELSE Err("Io"), s, << >>)

\* Variant: the initial call records the time but reports no change.
FileStore_changed_initial_false(s, f, now) ==
    IF s.last = None
    THEN ChangedResult(FALSE, [s EXCEPT !.last = Some(now)], << >>)
    ELSE IF f.exists /\ f.mtime > s.last[1]
         THEN ChangedResult(TRUE, [s EXCEPT !.last = Some(f.mtime)], << >>)
         ELSE ChangedResult(FALSE, s, << >>)

\* Variant: a modification time equal to the recorded one counts as newer.
FileStore_changed_not_older(s, f, now) ==
    IF s.last = None
    THEN ChangedResult(TRUE, [s EXCEPT !.last = Some(now)], << >>)
    ELSE IF f.exists /\ f.mtime >= s.last[1]
         THEN ChangedResult(TRUE, [s EXCEPT !.last = Some(f.mtime)], << >>)
         ELSE ChangedResult(FALSE, s, << >>)

\* Variant: a failing stat forgets the recorded timestamp.
FileStore_changed_stat_failure_resets(s, f, now) ==
    IF s.last = None
    THEN ChangedResult(TRUE, [s EXCEPT !.last = Some(now)], << >>)
    ELSE IF ~f.exists
         THEN ChangedResult(FALSE, [s EXCEPT !.last = None], << >>)
         ELSE IF f.mtime > s.last[1]
              THEN ChangedResult(TRUE, [s EXCEPT !.last = Some(f.mtime)], << >>)
              ELSE ChangedResult(FALSE, s, << >>)

\* Variant: every successful stat is recorded, newer or not.
FileStore_changed_records_any(s, f, now) ==
    IF s.last = None
    THEN ChangedResult(TRUE, [s EXCEPT !.last = Some(now)], << >>)
    ELSE IF f.exists
         THEN ChangedResult(f.mtime > s.last[1],
                            [s EXCEPT !.last = Some(f.mtime)], << >>)
         ELSE ChangedResult(FALSE, s, << >>)

FileStore_changed(s, f, now) ==
    IF s.last = None
    THEN ChangedResult(TRUE, [s EXCEPT !.last = Some(now)], << >>)
    ELSE IF f.exists /\ f.mtime > s.last[1]
         THEN ChangedResult(TRUE, [s EXCEPT !.last = Some(f.mtime)], << >>)
         ELSE ChangedResult(FALSE, s, << >>)

(***************************************************************************)
(* MemoryStore                                                             *)
(***************************************************************************)
MemoryStore_update(s, data) == [s EXCEPT !.changed = TRUE, !.data = data]

\* Variant: parse_map leaves the dirty flag set.
MemoryStore_parse_map_keeps_flag(s) ==
    ParseResult(LoadFunction(s.data), s, << >>)

\* Variant: the dirty flag is cleared only once the text has loaded.
MemoryStore_parse_map_clears_on_success(s) ==
    LET r == LoadFunction(s.data)
    IN  ParseResult(r, IF r.ok THEN [s EXCEPT !.changed = FALSE] ELSE s, << >>)

MemoryStore_parse_map(s) ==
    ParseResult(LoadFunction(s.data), [s EXCEPT !.changed = FALSE], << >>)

\* Variant: changed() takes the flag, resetting it.
MemoryStore_changed_resets(s) ==
    ChangedResult(s.changed, [s EXCEPT !.changed = FALSE], << >>)

MemoryStore_changed(s) == ChangedResult(s.changed, s, << >>)

(***************************************************************************)
(* NullStore                                                               *)
(***************************************************************************)
\* Variant: "always empty" as an empty map instead of an error.
NullStore_parse_map_empty(s) == ParseResult(Ok(EmptyMap), s, << >>)

NullStore_parse_map(s) == ParseResult(Err("Io"), s, << >>)

NullStore_changed(s) == ChangedResult(FALSE, s, << >>)

(***************************************************************************)
(* PartialStore                                                            *)
(***************************************************************************)
\* Variant: the partial's failure is propagated too.
PartialStore_parse_map_partial_required(s, f) ==
    LET p    == parse_map(s.partial, f)
        d    == parse_map(s.default, f)
        s2   == [s EXCEPT !.partial = p.store, !.default = d.store]
        sub  == <<"partial.parse_map">> \o <<"default.parse_map">>
    IN  IF ~p.res.ok
        THEN ParseResult(Err(p.res.err), [s EXCEPT !.partial = p.store],
                         <<"partial.parse_map">>)
        ELSE IF d.res.ok
             THEN ParseResult(Ok(HashMap_extend(d.res.map, p.res.map)), s2, sub)
             ELSE ParseResult(Err(d.res.err), s2, sub)

\* Variant: the default's failure is taken as an empty map as well.
PartialStore_parse_map_default_optional(s, f) ==
    LET p    == parse_map(s.partial, f)
        left == unwrap_or_default(p.res)
        d    == parse_map(s.default, f)
        s2   == [s EXCEPT !.partial = p.store, !.default = d.store]
        sub  == <<"partial.parse_map">> \o <<"default.parse_map">>
    IN  ParseResult(Ok(HashMap_extend(unwrap_or_default(d.res), left)), s2, sub)

PartialStore_parse_map(s, f) ==
    LET p    == parse_map(s.partial, f)
        left == unwrap_or_default(p.res)
        d    == parse_map(s.default, f)
        s2   == [s EXCEPT !.partial = p.store, !.default = d.store]
        sub  == <<"partial.parse_map">> \o <<"default.parse_map">>
    IN  IF d.res.ok
        THEN ParseResult(Ok(HashMap_extend(d.res.map, left)), s2, sub)
        ELSE ParseResult(Err(d.res.err), s2, sub)

\* Variant: both tiers are polled.
PartialStore_changed_polls_default(s, f, now) ==
    LET p == changed(s.partial, f, now)
        d == changed(s.default, f, now)
    IN  ChangedResult(p.ret \/ d.ret,
                      [s EXCEPT !.partial = p.store, !.default = d.store],
                      <<"partial.changed", "default.changed">>)

PartialStore_changed(s, f, now) ==
    LET p == changed(s.partial, f, now)
    IN  ChangedResult(p.ret, [s EXCEPT !.partial = p.store], <<"partial.changed">>)

(***************************************************************************)
(* Option<T>, Box<T>, &mut T                                               *)
(***************************************************************************)
Option_parse_map(s, f) ==
    IF ~s.some
    THEN ParseResult(Err("Io"), s, << >>)
    ELSE LET i == parse_map(s.inner, f)
         IN  ParseResult(i.res, [s EXCEPT !.inner = i.store],
                         <<"inner.parse_map">>)

Option_changed(s, f, now) == ChangedResult(TRUE, s, << >>)

Forward_parse_map(s, f) ==
    LET i == parse_map(s.inner, f)
    IN  ParseResult(i.res, [s EXCEPT !.inner = i.store], <<"inner.parse_map">>)

Forward_changed(s, f, now) ==
    LET i == changed(s.inner, f, now)
    IN  ChangedResult(i.ret, [s EXCEPT !.inner = i.store], <<"inner.changed">>)

(***************************************************************************)
(* trait TemplateStore: dynamic dispatch on the store's variant            *)
(***************************************************************************)
parse_map(s, f) ==
    CASE s.k = "File"    -> FileStore_parse_map(s, f)
      [] s.k = "Memory"  -> MemoryStore_parse_map(s)
      [] s.k = "Null"    -> NullStore_parse_map(s)
      [] s.k = "Partial" -> PartialStore_parse_map(s, f)
      [] s.k = "Option"  -> Option_parse_map(s, f)
      [] OTHER           -> Forward_parse_map(s, f)

changed(s, f, now) ==
    CASE s.k = "File"    -> FileStore_changed(s, f, now)
      [] s.k = "Memory"  -> MemoryStore_changed(s)
      [] s.k = "Null"    -> NullStore_changed(s)
      [] s.k = "Partial" -> PartialStore_changed(s, f, now)
      [] s.k = "Option"  -> Option_changed(s, f, now)
      [] OTHER           -> Forward_changed(s, f, now)

(***************************************************************************)
(* Templates and Resolver                                                  *)
(***************************************************************************)
\* What a refresh did: the store and cache afterwards, Ok or the error kind,
\* what changed() returned, and the calls made on the store, in order.
RefreshResult(s, t, err, chg, calls, sub) ==
    [store |-> s, templates |-> t, err |-> err, chg |-> chg,
     calls |-> calls, sub |-> sub]

\* Variant: a failed parse leaves the default (empty) map in the cache.
Templates_refresh_clears(s, t, f, now) ==
    LET c == changed(s, f, now)
    IN  IF c.ret
        THEN LET p == parse_map(c.store, f)
             IN  RefreshResult(p.store, unwrap_or_default(p.res),
                               p.res.err, TRUE,
                               <<"changed", "parse_map">>, c.sub \o p.sub)
        ELSE RefreshResult(c.store, t, "Ok", FALSE, <<"changed">>, c.sub)

\* Variant: the store is parsed whatever changed() returned.
Templates_refresh_always_parses(s, t, f, now) ==
    LET c == changed(s, f, now)
        p == parse_map(c.store, f)
    IN  RefreshResult(p.store,
                      IF p.res.ok THEN p.res.map ELSE t,
                      p.res.err, c.ret,
                      <<"changed", "parse_map">>, c.sub \o p.sub)

\* Variant: the parsed map is merged into the cached one.
Templates_refresh_extends(s, t, f, now) ==
    LET c == changed(s, f, now)
    IN  IF c.ret
        THEN LET p == parse_map(c.store, f)
             IN  RefreshResult(p.store,
                               IF p.res.ok THEN HashMap_extend(t, p.res.map) ELSE t,
                               p.res.err, TRUE,
                               <<"changed", "parse_map">>, c.sub \o p.sub)
        ELSE RefreshResult(c.store, t, "Ok", FALSE, <<"changed">>, c.sub)

Templates_refresh(s, t, f, now) ==
    LET c == changed(s, f, now)
    IN  IF c.ret
        THEN LET p == parse_map(c.store, f)
             IN  RefreshResult(p.store,
                               IF p.res.ok THEN p.res.map ELSE t,
                               p.res.err, TRUE,
                               <<"changed", "parse_map">>, c.sub \o p.sub)
        ELSE RefreshResult(c.store, t, "Ok", FALSE, <<"changed">>, c.sub)

\* Variant: the first refresh's failure is dropped.
Templates_new_ignores_error(s, f, now) ==
    [Templates_refresh(s, EmptyMap, f, now) EXCEPT !.err = "Ok"]

Templates_new(s, f, now) == Templates_refresh(s, EmptyMap, f, now)

\* Variant: an absent namespace is reported as an empty mapping.
Templates_get_or_default(t, ns) ==
    IF ns \in DOMAIN t THEN Some(t[ns]) ELSE Some(EmptyMap)

\* Option<&Mapping>
Templates_get(t, ns) == IF ns \in DOMAIN t THEN Some(t[ns]) ELSE None

\* Variant: a failed refresh is ignored and the lookup goes on.
Resolver_resolve_stale(r, ns, name) ==
    LET g == Templates_get(r.templates, ns)
    IN  IF g = None THEN NONE ELSE Mapping_get(g[1], name)

\* Variant: namespace and variant are looked up the wrong way round.
Resolver_resolve_swapped(r, ns, name) ==
    IF r.err # "Ok"
    THEN NONE
    ELSE LET g == Templates_get(r.templates, name)
         IN  IF g = None THEN NONE ELSE Mapping_get(g[1], ns)

\* The Option<&String> returned by resolve, given the refresh it performed.
Resolver_resolve(r, ns, name) ==
    IF r.err # "Ok"
    THEN NONE
    ELSE LET g == Templates_get(r.templates, ns)
         IN  IF g = None THEN NONE ELSE Mapping_get(g[1], name)

(***************************************************************************)
(* Initial states                                                          *)
(***************************************************************************)
MemoryLeaves == {MemoryStore_new(t) : t \in Texts}
Leaves == MemoryLeaves \cup {FileStore_new, NullStore_new}

HasFile(s) ==
    \/ s.k = "File"
    \/ s.k \in {"Box", "RefMut", "Option"} /\ s.inner.k = "File"
    \/ s.k = "Partial" /\ (s.partial.k = "File" \/ s.default.k = "File")

\* Every store variant, wrappers and PartialStore over the leaf stores; a
\* PartialStore's default is a MemoryStore or a NullStore.
InitStores ==
    Leaves
    \cup {BoxStore(l) : l \in Leaves}
    \cup {RefMutStore(l) : l \in Leaves}
    \cup {OptionSome(l) : l \in Leaves}
    \cup {OptionNone}
    \cup {PartialStore_new(d, p) : d \in Leaves \ {FileStore_new}, p \in Leaves}

\* The wall-clock readings SystemTime::now() can give a changed() call on s:
\* only a FileStore that has recorded no timestamp reads the clock.
ReadsClock(s) ==
    \/ s.k = "File" /\ s.last = None
    \/ s.k \in {"Box", "RefMut"} /\ s.inner.k = "File" /\ s.inner.last = None
    \/ s.k = "Partial" /\ s.partial.k = "File" /\ s.partial.last = None
Nows(s) == IF ReadsClock(s) THEN Times ELSE {0}

NoFile == [exists |-> FALSE, mtime |-> 0, data |-> TextEmpty]
Files == {NoFile} \cup [exists : {TRUE}, mtime : Times, data : Texts]

NoOp(op) ==
    [op |-> op, ns |-> "", name |-> "", ret |-> NONE, got |-> None,
     err |-> "Ok", chg |-> FALSE, calls |-> << >>, sub |-> << >>,
     consec |-> FALSE, prevRet |-> NONE, prevErr |-> "Ok",
     fresh |-> FALSE, initial |-> FALSE,
     later |-> FALSE, existed |-> FALSE, pending |-> FALSE]

Init ==
    /\ store \in InitStores
    /\ file \in (IF HasFile(store) THEN Files ELSE {NoFile})
    /\ templates = EmptyMap
    /\ phase = "fresh"
    /\ lastOp = NoOp("init")

(***************************************************************************)
(* Operations                                                              *)
(***************************************************************************)
Touched == IF phase = "fresh" THEN "used" ELSE phase

\* Templates::new / Resolver::new
New ==
    /\ phase \in {"fresh", "used"}
    /\ \E now \in Nows(store) :
        LET r == Templates_new(store, file, now)
        IN  /\ store' = r.store
            /\ templates' = IF r.err = "Ok" THEN r.templates ELSE EmptyMap
            /\ phase' = IF r.err = "Ok" THEN "ready" ELSE "failed"
            /\ lastOp' = [NoOp("new") EXCEPT !.err = r.err, !.chg = r.chg,
                              !.calls = r.calls, !.sub = r.sub,
                              !.fresh = (phase = "fresh"),
                              !.initial = ReadsClock(store)]
    /\ UNCHANGED file

\* Templates::refresh
Refresh ==
    /\ phase = "ready"
    /\ \E now \in Nows(store) :
        LET r == Templates_refresh(store, templates, file, now)
        IN  /\ store' = r.store
            /\ templates' = r.templates
            /\ lastOp' = [NoOp("refresh") EXCEPT !.err = r.err, !.chg = r.chg,
                              !.calls = r.calls, !.sub = r.sub,
                              !.initial = ReadsClock(store)]
    /\ UNCHANGED <<file, phase>>

\* Templates::get
Get ==
    /\ phase = "ready"
    /\ \E ns \in Namespaces :
        lastOp' = [NoOp("get") EXCEPT !.ns = ns, !.got = Templates_get(templates, ns)]
    /\ UNCHANGED <<store, file, templates, phase>>

\* Whether the operation before this one was resolve with the same arguments.
Consecutive(key) ==
    lastOp.op = "resolve" /\ lastOp.ns = key[1] /\ lastOp.name = key[2]

\* Resolver::resolve
Resolve ==
    /\ phase = "ready"
    /\ \E key \in Keys, now \in Nows(store) :
        LET r == Templates_refresh(store, templates, file, now)
        IN  /\ store' = r.store
            /\ templates' = r.templates
            /\ lastOp' = [NoOp("resolve") EXCEPT
                              !.ns = key[1], !.name = key[2],
                              !.ret = Resolver_resolve(r, key[1], key[2]),
                              !.err = r.err, !.chg = r.chg,
                              !.calls = r.calls, !.sub = r.sub,
                              !.initial = ReadsClock(store),
                              !.consec = Consecutive(key),
                              !.prevRet = IF Consecutive(key) THEN lastOp.ret ELSE NONE,
                              !.prevErr = IF Consecutive(key) THEN lastOp.err ELSE "Ok"]
    /\ UNCHANGED <<file, phase>>

\* TemplateStore::changed called on the store by its owner
CallChanged ==
    /\ phase # "failed"
    /\ \E now \in Nows(store) :
        LET c == changed(store, file, now)
        IN  /\ store' = c.store
            /\ lastOp' = [NoOp("changed") EXCEPT !.chg = c.ret, !.sub = c.sub,
                              !.calls = <<"changed">>,
                              !.fresh = (phase = "fresh"),
                              !.initial = ReadsClock(store)]
    /\ phase' = Touched
    /\ UNCHANGED <<file, templates>>

\* TemplateStore::parse_map called on the store by its owner
CallParseMap ==
    /\ phase # "failed"
    /\ LET p == parse_map(store, file)
       IN  /\ store' = p.store
           /\ lastOp' = [NoOp("parse_map") EXCEPT !.err = p.res.err, !.sub = p.sub,
                             !.calls = <<"parse_map">>,
                             !.got = IF p.res.ok THEN Some(p.res.map) ELSE None]
    /\ phase' = Touched
    /\ UNCHANGED <<file, templates>>

\* MemoryStore::update on a MemoryStore reached through store_mut(),
\* default_mut() or partial_mut()
Update ==
    /\ phase # "failed"
    /\ \E text \in Texts :
        \/ /\ store.k = "Memory"
           /\ store' = MemoryStore_update(store, text)
           /\ lastOp' = [NoOp("update") EXCEPT !.name = "self"]
        \/ /\ store.k \in {"Box", "RefMut", "Option"}
           /\ store.inner.k = "Memory"
           /\ store' = [store EXCEPT !.inner = MemoryStore_update(store.inner, text)]
           /\ lastOp' = [NoOp("update") EXCEPT !.name = "inner"]
        \/ /\ store.k = "Partial"
           /\ store.partial.k = "Memory"
           /\ store' = [store EXCEPT !.partial = MemoryStore_update(store.partial, text)]
           /\ lastOp' = [NoOp("update") EXCEPT !.name = "partial"]
        \/ /\ store.k = "Partial"
           /\ store.default.k = "Memory"
           /\ store' = [store EXCEPT !.default = MemoryStore_update(store.default, text)]
           /\ lastOp' = [NoOp("update") EXCEPT !.name = "default"]
    /\ UNCHANGED <<file, templates, phase>>

\* The environment writes the backing file, leaving it with mtime t.
WriteFile ==
    /\ phase # "failed"
    /\ HasFile(store)
    /\ \E text \in Texts, t \in Times :
        /\ file' = [exists |-> TRUE, mtime |-> t, data |-> text]
        /\ lastOp' = [NoOp("write") EXCEPT
                          !.existed = file.exists,
                          !.later = (file.exists /\ t > file.mtime),
                          !.pending = changed(store, file, 0).ret]
    /\ UNCHANGED <<store, templates, phase>>

\* The environment removes the backing file (stat and read then fail).
RemoveFile ==
    /\ phase # "failed"
    /\ HasFile(store)
    /\ file.exists
    /\ file' = NoFile
    /\ lastOp' = NoOp("remove")
    /\ UNCHANGED <<store, templates, phase>>

Next ==
    \/ New
    \/ Refresh
    \/ Get
    \/ Resolve
    \/ CallChanged
    \/ CallParseMap
    \/ Update
    \/ WriteFile
    \/ RemoveFile

Spec == Init /\ [][Next]_vars

(***************************************************************************)
(* Vocabulary of the properties                                            *)
(***************************************************************************)
\* Whether the operation recorded in op called parse_map on the store.
Parsed(op) == \E i \in DOMAIN op.calls : op.calls[i] = "parse_map"

Defines(m, ns, k) == ns \in DOMAIN m /\ k \in DOMAIN m[ns]
Lookup(m, ns, k) == IF Defines(m, ns, k) THEN m[ns][k] ELSE NONE

AllNamespaces == {"a", "greet", "missing_ns"}
AllNames == {"x", "y", "hello", "missing_name"}

\* What the two sources of a PartialStore parse to in the current state.
PartialParsed == parse_map(store.partial, file).res
DefaultParsed == parse_map(store.default, file).res

RefreshOps == {"new", "refresh", "resolve"}

(***************************************************************************)
(* C1: PartialStore::parse_map merges entry by entry: every (ns, k) the     *)
(* partial's map defines has the partial's value in the merged map, and     *)
(* every other (ns, k) the default's map defines has the default's value    *)
(* (default {a.x=1, a.y=2}, partial {a.x=9} gives {a.x=9, a.y=2}).           *)
(***************************************************************************)
C1_EntryLevelMerge ==
    (store.k = "Partial" /\ lastOp.op = "parse_map" /\ lastOp.err = "Ok") =>
        LET merged == lastOp.got[1]
            P == unwrap_or_default(PartialParsed)
            D == DefaultParsed.map
        IN  \A ns \in AllNamespaces, k \in AllNames :
                /\ Defines(P, ns, k) => Lookup(merged, ns, k) = P[ns][k]
                /\ (~Defines(P, ns, k) /\ Defines(D, ns, k)) =>
                        Lookup(merged, ns, k) = D[ns][k]

(***************************************************************************)
(* C2 as stated: when the refresh inside resolve(ns, name) fails, that same *)
(* call still returns what the retained cache holds for (ns, name).         *)
(***************************************************************************)
C2_StaleValueOnFailedRefresh ==
    (lastOp.op = "resolve" /\ lastOp.err # "Ok") =>
        lastOp.ret = Lookup(templates, lastOp.ns, lastOp.name)

(***************************************************************************)
(* C2 amended: when the refresh inside resolve(ns, name) fails, the failure *)
(* is swallowed into the result None for that call, whatever the cache      *)
(* holds, and the cache is left as it was.                                  *)
(***************************************************************************)
C2_FailedRefreshResolvesNone ==
    [][(lastOp'.op = "resolve" /\ lastOp'.err # "Ok") =>
            (lastOp'.ret = NONE /\ templates' = templates)]_vars

\* A resolve whose refresh failed while the cache holds the key asked for.
C2_Witness ==
    /\ lastOp.op = "resolve"
    /\ lastOp.err # "Ok"
    /\ Defines(templates, lastOp.ns, lastOp.name)

(***************************************************************************)
(* C3: a refresh() that returns Err leaves the cached TemplateMap exactly   *)
(* as it was before the call.                                               *)
(***************************************************************************)
C3_FailedRefreshKeepsCache ==
    [][(lastOp'.op \in {"refresh", "resolve"} /\ lastOp'.err # "Ok") =>
            templates' = templates]_vars

\* A failed refresh() on a cache filled by an earlier successful one.
C3_Witness ==
    /\ lastOp.op = "refresh"
    /\ lastOp.err # "Ok"
    /\ templates # EmptyMap

(***************************************************************************)
(* C4 as stated: of two consecutive resolve(ns, name) calls with nothing    *)
(* done in between, the second returns what the first returned and does    *)
(* not call parse_map (for a store that tracks changes: every store but the *)
(* Option wrapper, whose changed() is the subject of C10).                  *)
(***************************************************************************)
C4_IdempotentRead ==
    (lastOp.op = "resolve" /\ lastOp.consec /\ store.k # "Option") =>
        (lastOp.ret = lastOp.prevRet /\ ~Parsed(lastOp))

(***************************************************************************)
(* C4 amended: of two consecutive resolve(ns, name) calls with nothing done *)
(* in between, the second does not call parse_map, and it returns what the  *)
(* first returned provided the first call's refresh did not fail (a first   *)
(* call whose refresh failed returned None; the second answers from the     *)
(* retained cache).                                                         *)
(***************************************************************************)
C4_IdempotentReadAfterGoodRefresh ==
    (lastOp.op = "resolve" /\ lastOp.consec /\ store.k # "Option") =>
        /\ ~Parsed(lastOp)
        /\ lastOp.err = "Ok"
        /\ lastOp.ret = Lookup(templates, lastOp.ns, lastOp.name)
        /\ lastOp.prevErr = "Ok" => lastOp.ret = lastOp.prevRet

\* A second resolve answering from the cache, without parsing, as the first did.
C4_Witness ==
    /\ lastOp.op = "resolve"
    /\ lastOp.consec
    /\ lastOp.prevErr = "Ok"
    /\ lastOp.ret # NONE
    /\ store.k = "Memory"

(***************************************************************************)
(* C5 as stated: the first changed() of every freshly constructed store     *)
(* returns true, so the refresh inside Templates::new reaches parse_map.    *)
(***************************************************************************)
C5_FirstChangedTrue ==
    (lastOp.op \in {"changed", "new"} /\ lastOp.fresh) =>
        (lastOp.chg /\ (lastOp.op = "new" => Parsed(lastOp)))

\* The store that decides changed() is a NullStore.
DecidedByNullStore(s) ==
    \/ s.k = "Null"
    \/ s.k \in {"Box", "RefMut"} /\ s.inner.k = "Null"
    \/ s.k = "Partial" /\ s.partial.k = "Null"

(***************************************************************************)
(* C5 amended: the first changed() of a freshly constructed store returns   *)
(* true, and the refresh inside Templates::new reaches parse_map, for every *)
(* store except a NullStore and a PartialStore, Box or &mut whose partial / *)
(* inner store is a NullStore; for those it returns false and               *)
(* Templates::new does not call parse_map.                                  *)
(***************************************************************************)
C5_FirstChangedTrueUnlessNull ==
    (lastOp.op \in {"changed", "new"} /\ lastOp.fresh) =>
        /\ lastOp.chg <=> ~DecidedByNullStore(store)
        /\ lastOp.op = "new" => (Parsed(lastOp) <=> lastOp.chg)

\* Templates::new on a fresh FileStore: changed() was true and the file parsed.
C5_Witness ==
    /\ lastOp.op = "new"
    /\ lastOp.fresh
    /\ lastOp.chg
    /\ Parsed(lastOp)
    /\ store.k = "File"

(***************************************************************************)
(* C6 as stated: Templates::new on a fresh store performs exactly one       *)
(* parse and returns Ok exactly when the store's parse_map succeeds.        *)
(***************************************************************************)
C6_NewParsesOnce ==
    (lastOp.op = "new" /\ lastOp.fresh) =>
        /\ Parsed(lastOp)
        /\ lastOp.err = "Ok" <=> parse_map(store, file).res.ok

(***************************************************************************)
(* C6 amended: Templates::new on a fresh store performs one parse when the  *)
(* store's first changed() returns true, and then returns Ok exactly when   *)
(* that parse succeeds, with the parsed map as its cache; when the first    *)
(* changed() returns false (NullStore) it performs no parse and returns Ok  *)
(* with an empty cache.                                                     *)
(***************************************************************************)
C6_NewParsesWhenChanged ==
    (lastOp.op = "new" /\ lastOp.fresh) =>
        /\ Parsed(lastOp) <=> lastOp.chg
        /\ lastOp.chg =>
            /\ lastOp.calls = <<"changed", "parse_map">>
            /\ lastOp.err = "Ok" <=> parse_map(store, file).res.ok
            /\ lastOp.err = "Ok" => templates = parse_map(store, file).res.map
            /\ phase = (IF lastOp.err = "Ok" THEN "ready" ELSE "failed")
        /\ ~lastOp.chg => (lastOp.err = "Ok" /\ templates = EmptyMap /\ phase = "ready")

\* Templates::new failed because the first parse failed.
C6_Witness ==
    /\ lastOp.op = "new"
    /\ lastOp.fresh
    /\ Parsed(lastOp)
    /\ lastOp.err # "Ok"
    /\ phase = "failed"

(***************************************************************************)
(* C7 as stated: after the initial changed(), a write that leaves the file  *)
(* with a strictly later modification time than it had makes the next       *)
(* changed() return true, and a write that leaves it with an earlier or     *)
(* equal one does not make the next changed() return true.                  *)
(***************************************************************************)
C7_LaterMtimeDetected ==
    [][(/\ store.k = "File"
        /\ store.last # None
        /\ lastOp.op = "write"
        /\ lastOp.existed
        /\ lastOp'.op = "changed") =>
            /\ lastOp.later => lastOp'.chg
            /\ (~lastOp.later /\ ~lastOp.pending) => ~lastOp'.chg]_vars

(***************************************************************************)
(* C7 amended: after the initial changed(), which records the wall-clock    *)
(* time, changed() returns true exactly when the file can be stat-ed and    *)
(* its modification time is strictly later than the recorded timestamp; it  *)
(* then records that modification time (so the same modification is not     *)
(* reported twice), and otherwise leaves the store as it was.               *)
(***************************************************************************)
C7_NewerThanRecordedDetectedOnce ==
    [][(store.k = "File" /\ store.last # None /\ lastOp'.op = "changed") =>
            /\ lastOp'.chg <=> (file.exists /\ file.mtime > store.last[1])
            /\ lastOp'.chg => store'.last = Some(file.mtime)
            /\ ~lastOp'.chg => store' = store
            /\ ~changed(store', file', 0).ret]_vars

\* A later changed() of a FileStore that reported a modification.
C7_Witness ==
    /\ store.k = "File"
    /\ lastOp.op = "changed"
    /\ ~lastOp.initial
    /\ lastOp.chg
    /\ store.last = Some(file.mtime)

C9_DefaultRequired ==
    (/\ store.k = "Partial"
     /\ lastOp.op = "refresh"
     /\ DefaultParsed.err = "Deserialize") =>
        lastOp.err # "Ok"

(***************************************************************************)
(* C9 amended: a refresh() of a Templates over a PartialStore called while  *)
(* the default source is malformed leaves the cached map unchanged; it      *)
(* returns Err when the partial store reports a change, and returns Ok      *)
(* without parsing when the partial store reports none.                     *)
(***************************************************************************)
C9_DefaultRequiredWhenPartialChanged ==
    [][(store.k = "Partial" /\ lastOp'.op = "refresh" /\ ~DefaultParsed.ok) =>
            /\ templates' = templates
            /\ lastOp'.chg => (Parsed(lastOp') /\ lastOp'.err = DefaultParsed.err)
            /\ ~lastOp'.chg => (~Parsed(lastOp') /\ lastOp'.err = "Ok")]_vars

\* A refresh() that failed on the default alone, over a filled cache.
C9_Witness ==
    /\ store.k = "Partial"
    /\ lastOp.op = "refresh"
    /\ lastOp.chg
    /\ lastOp.err # "Ok"
    /\ PartialParsed.ok
    /\ DefaultParsed.err = "Deserialize"
    /\ templates # EmptyMap

(***************************************************************************)
(* C10: changed() and parse_map() of Box<T>, &mut T and Option<T> holding   *)
(* Some(inner) return what the inner store's would and leave the inner      *)
(* store as the inner call would.                                           *)
(***************************************************************************)
C10_WrappersForward ==
    [][(/\ store.k \in {"Box", "RefMut", "Option"}
        /\ store.k = "Option" => store.some) =>
            /\ lastOp'.op = "changed" =>
                  \E now \in Times :
                      /\ lastOp'.chg = changed(store.inner, file, now).ret
                      /\ store'.inner = changed(store.inner, file, now).store
            /\ lastOp'.op = "parse_map" =>
                  /\ lastOp'.err = parse_map(store.inner, file).res.err
                  /\ store'.inner = parse_map(store.inner, file).store]_vars

(***************************************************************************)
(* C11: PartialStore::changed() returns what partial.changed() returns and  *)
(* neither calls nor alters the default store; a refresh() therefore parses *)
(* exactly when the partial reports a change, and otherwise (also after an  *)
(* update() of the default alone) leaves the cached map as it was.          *)
(***************************************************************************)
C11_ChangedPollsPartialOnly ==
    [][store.k = "Partial" =>
            /\ lastOp'.op = "changed" =>
                  /\ lastOp'.sub = <<"partial.changed">>
                  /\ store'.default = store.default
                  /\ \E now \in Times :
                        /\ lastOp'.chg = changed(store.partial, file, now).ret
                        /\ store'.partial = changed(store.partial, file, now).store
            /\ lastOp'.op \in {"refresh", "resolve"} =>
                  /\ Parsed(lastOp') <=> changed(store.partial, file, 0).ret
                  /\ ~Parsed(lastOp') =>
                        (templates' = templates /\ store'.default = store.default)]_vars

\* A refresh() over two MemoryStores that did not parse although the default
\* had been updated since the last parse.
C11_Witness ==
    /\ store.k = "Partial"
    /\ store.partial.k = "Memory"
    /\ store.default.k = "Memory"
    /\ store.default.changed
    /\ lastOp.op = "refresh"
    /\ ~Parsed(lastOp)

(***************************************************************************)
(* C12: a MemoryStore's dirty flag starts true; changed() returns it and    *)
(* leaves the store as it was; parse_map() clears it and keeps the buffer;  *)
(* update() sets it; nothing else touches the store. So the flag is true    *)
(* exactly when no parse_map() has run since construction or the last       *)
(* update().                                                                *)
(***************************************************************************)
C12_DirtyFlagProtocol ==
    /\ store.k = "Memory" => store.changed
    /\ [][store.k = "Memory" =>
            /\ lastOp'.op = "changed" =>
                  (lastOp'.chg = store.changed /\ store' = store)
            /\ lastOp'.op = "update" => store'.changed
            /\ Parsed(lastOp') =>
                  (~store'.changed /\ store'.data = store.data)
            /\ (lastOp'.op # "update" /\ ~Parsed(lastOp')) => store' = store]_vars

\* changed() reporting an update() made after the store had been parsed.
C12_Witness ==
    /\ store.k = "Memory"
    /\ phase = "ready"
    /\ lastOp.op = "changed"
    /\ lastOp.chg
    /\ store.changed

(***************************************************************************)
(* C13: resolve(ns, name) returns None when the cache does not hold         *)
(* (ns, name) - never filled, namespace absent or name absent - and, when   *)
(* its refresh succeeds, exactly the string cached for (ns, name),          *)
(* unsubstituted ("hi ${name}" for greet.hello).                            *)
(***************************************************************************)
C13_ResolveLooksUpCache ==
    lastOp.op = "resolve" =>
        /\ lastOp.err = "Ok" =>
              lastOp.ret = Lookup(templates, lastOp.ns, lastOp.name)
        /\ ~Defines(templates, lastOp.ns, lastOp.name) => lastOp.ret = NONE
        /\ (lastOp.ns = "greet" /\ lastOp.name = "hello" /\ lastOp.err = "Ok"
            /\ Defines(templates, "greet", "hello")) => lastOp.ret = "hi ${name}"

\* resolve("greet", "hello") giving the stored template text.
C13_Witness ==
    /\ lastOp.op = "resolve"
    /\ lastOp.ns = "greet"
    /\ lastOp.name = "hello"
    /\ lastOp.ret = "hi ${name}"

(***************************************************************************)
(* C14: a NullStore has no state; changed() always returns false and        *)
(* parse_map() always returns Err(Error::Io).                               *)
(***************************************************************************)
C14_NullStoreUniform ==
    store.k = "Null" =>
        /\ store = NullStore_new
        /\ "changed" \in {lastOp.calls[i] : i \in DOMAIN lastOp.calls} => ~lastOp.chg
        /\ lastOp.op = "parse_map" => (lastOp.err = "Io" /\ lastOp.got = None)

\* parse_map() of a NullStore that has been asked changed() before.
C14_Witness ==
    /\ store.k = "Null"
    /\ phase = "ready"
    /\ lastOp.op = "parse_map"
    /\ lastOp.err = "Io"

(***************************************************************************)
(* C15: every refresh() calls store.changed() once, then store.parse_map()  *)
(* once if and only if changed() returned true; when changed() returned     *)
(* false it returns Ok and leaves the cache unchanged.                      *)
(***************************************************************************)
C15_CheckThenFetch ==
    [][lastOp'.op \in {"refresh", "resolve"} =>
            /\ \E now \in Times : lastOp'.chg = changed(store, file, now).ret
            /\ lastOp'.calls = (IF lastOp'.chg THEN <<"changed", "parse_map">>
                                               ELSE <<"changed">>)
            /\ ~lastOp'.chg => (lastOp'.err = "Ok" /\ templates' = templates)]_vars

\* A refresh() that found nothing changed and kept a filled cache.
C15_Witness ==
    /\ lastOp.op = "refresh"
    /\ lastOp.calls = <<"changed">>
    /\ templates # EmptyMap

(***************************************************************************)
(* C16: a refresh() that parses successfully leaves the cache equal to the  *)
(* map that parse_map() returned, nothing of the previous cache surviving;  *)
(* no other step alters the cache. So the cache is the empty map or the     *)
(* result of the most recent successful parse of a refresh.                 *)
(***************************************************************************)
C16_WholesaleReplacement ==
    /\ templates = EmptyMap
    /\ [][/\ (lastOp'.op \in RefreshOps /\ Parsed(lastOp') /\ lastOp'.err = "Ok") =>
                \E now \in Times :
                    LET p == parse_map(changed(store, file, now).store, file)
                    IN  p.res.ok /\ templates' = p.res.map
          /\ ~(lastOp'.op \in RefreshOps /\ Parsed(lastOp') /\ lastOp'.err = "Ok") =>
                templates' = templates]_vars

\* A refresh() that replaced a cache holding namespace "a" by a map without it.
C16_Witness ==
    /\ store.k = "Memory"
    /\ lastOp.op = "refresh"
    /\ Parsed(lastOp)
    /\ lastOp.err = "Ok"
    /\ templates = Deserialize(TextGreet)

(***************************************************************************)
(* C17: once a FileStore has recorded a timestamp, a changed() during which *)
(* the file cannot be stat-ed returns false and leaves the recorded         *)
(* timestamp unchanged, and a changed() that finds the file readable again  *)
(* with a modification time newer than the recorded one returns true.       *)
(***************************************************************************)
C17_StatFailureIsUnchanged ==
    [][(store.k = "File" /\ store.last # None /\ lastOp'.op = "changed") =>
            /\ ~file.exists => (~lastOp'.chg /\ store' = store)
            /\ (file.exists /\ file.mtime > store.last[1]) => lastOp'.chg]_vars

\* changed() on a FileStore with a recorded timestamp while the file is gone.
C17_Witness ==
    /\ store.k = "File"
    /\ store.last # None
    /\ ~file.exists
    /\ lastOp.op = "changed"
    /\ ~lastOp.chg

(***************************************************************************)
(* C18: Templates::get(namespace) calls nothing on the store, leaves the    *)
(* store, the file and the cache as they were, and returns the cached       *)
(* mapping of namespace, or None.                                           *)
(***************************************************************************)
C18_GetIsPureRead ==
    [][lastOp'.op = "get" =>
            /\ store' = store
            /\ file' = file
            /\ templates' = templates
            /\ lastOp'.calls = << >>
            /\ lastOp'.got = (IF lastOp'.ns \in DOMAIN templates
                              THEN Some(templates[lastOp'.ns]) ELSE None)]_vars

\* get() returning a cached mapping while the store has an unseen change.
C18_Witness ==
    /\ lastOp.op = "get"
    /\ lastOp.got # None
    /\ store.k = "Memory"
    /\ store.changed

\* A MemoryStore, or a PartialStore of two MemoryStores.
MemoryBacked(s) ==
    \/ s.k = "Memory"
    \/ s.k = "Partial" /\ s.partial.k = "Memory" /\ s.default.k = "Memory"

\* The store the refresh of a Templates over s asks for changes.
Polled(s) == IF s.k = "Partial" THEN s.partial ELSE s

(***************************************************************************)
(* C19: over a MemoryStore (or a PartialStore of MemoryStores) a refresh()  *)
(* that returns Err leaves the store reporting no change; while it reports  *)
(* none, refresh() returns Ok without parsing, and only update() of the     *)
(* polled store makes it report a change again.                             *)
(***************************************************************************)
C19_FailedParseConsumesChange ==
    [][MemoryBacked(store) =>
            /\ (lastOp'.op \in {"refresh", "resolve"} /\ lastOp'.err # "Ok") =>
                  ~Polled(store').changed
            /\ (lastOp'.op \in {"refresh", "resolve"} /\ ~Polled(store).changed) =>
                  (lastOp'.err = "Ok" /\ ~Parsed(lastOp') /\ store' = store)
            /\ (~Polled(store).changed /\ Polled(store').changed) =>
                  (lastOp'.op = "update" /\ lastOp'.name \in {"self", "partial"})]_vars

\* The resolve after one whose refresh failed: Ok, answered without parsing,
\* with the malformed text still in the store.
C19_Witness ==
    /\ store.k = "Memory"
    /\ store.data = TextBad
    /\ lastOp.op = "resolve"
    /\ lastOp.consec
    /\ lastOp.prevErr = "Deserialize"
    /\ lastOp.err = "Ok"
    /\ ~Parsed(lastOp)

\* Whether the operation recorded in op called changed() on the store.
AskedChanged(op) == \E i \in DOMAIN op.calls : op.calls[i] = "changed"

(***************************************************************************)
(* C20: a FileStore's recorded timestamp is absent only until the first     *)
(* changed(); once recorded it is never absent again and never decreases;   *)
(* it changes only in a changed() that returns true, and parse_map() does   *)
(* not alter it.                                                            *)
(***************************************************************************)
C20_TimestampMonotonic ==
    /\ store.k = "File" => store.last = None
    /\ [][store.k = "File" =>
            /\ AskedChanged(lastOp') => store'.last # None
            /\ (store.last = None /\ ~AskedChanged(lastOp')) => store'.last = None
            /\ store.last # None =>
                  (store'.last # None /\ store'.last[1] >= store.last[1])
            /\ store'.last # store.last => (AskedChanged(lastOp') /\ lastOp'.chg)
            /\ lastOp'.op = "parse_map" => store' = store]_vars

\* A refresh() whose changed() moved the recorded timestamp to a later mtime.
C20_Witness ==
    /\ store.k = "File"
    /\ lastOp.op = "refresh"
    /\ ~lastOp.initial
    /\ lastOp.chg
    /\ store.last = Some(file.mtime)
    /\ file.mtime > 0

(***************************************************************************)
(* C21: whenever PartialStore::parse_map returns Ok, the namespaces of the  *)
(* merged map are exactly those of the default's parsed map together with   *)
(* those of the partial's parsed map (none if the partial failed); a        *)
(* namespace only the partial has carries exactly the partial's entries,    *)
(* and a namespace only the default has carries exactly the default's.      *)
(***************************************************************************)
C21_NamespaceUnion ==
    (store.k = "Partial" /\ lastOp.op = "parse_map" /\ lastOp.err = "Ok") =>
        LET merged == lastOp.got[1]
            P == unwrap_or_default(PartialParsed)
            D == DefaultParsed.map
        IN  /\ DOMAIN merged = (DOMAIN D) \cup (DOMAIN P)
            /\ \A ns \in (DOMAIN P) \ (DOMAIN D) : merged[ns] = P[ns]
            /\ \A ns \in (DOMAIN D) \ (DOMAIN P) : merged[ns] = D[ns]

\* A successful merge where each side brings a namespace the other lacks.
C21_Witness ==
    /\ store.k = "Partial"
    /\ lastOp.op = "parse_map"
    /\ lastOp.err = "Ok"
    /\ PartialParsed.ok
    /\ (DOMAIN PartialParsed.map) \ (DOMAIN DefaultParsed.map) # {}
    /\ (DOMAIN DefaultParsed.map) \ (DOMAIN PartialParsed.map) # {}

====
